---------------------------- MODULE Spec2Model ----------------------------
(***************************************************************************)
(* Model of the Allay completion provider (src/src/completionProvider.ts). *)
(* Text is a sequence of one-character strings; every regular expression   *)
(* of the provider is an operator over such sequences.  A completion       *)
(* request is a suspendable task: it runs synchronously up to its first    *)
(* external lookup (file enumeration, config read) and resumes with the    *)
(* lookup's response.                                                      *)
(***************************************************************************)
EXTENDS Integers, Sequences, FiniteSets, TLC

(* ------------------------------ text ---------------------------------- *)

LowerLetters ==
  <<"a","b","c","d","e","f","g","h","i","j","k","l","m",
    "n","o","p","q","r","s","t","u","v","w","x","y","z">>

UpperLetters ==
  <<"A","B","C","D","E","F","G","H","I","J","K","L","M",
    "N","O","P","Q","R","S","T","U","V","W","X","Y","Z">>

Range(s) == {s[i] : i \in 1..Len(s)}

\* the grave accent, which a TLA+ string literal cannot hold
Backtick == "grave"

Digits == {"0","1","2","3","4","5","6","7","8","9"}

\* \s of the JavaScript regular expressions (the characters the inputs use)
Whitespace == {" ", "\t", "\n", "\r"}

\* [a-zA-Z0-9_]
WordChars == Range(LowerLetters) \cup Range(UpperLetters) \cup Digits \cup {"_"}

MinOf(S) == CHOOSE x \in S : \A y \in S : x <= y

\* String.prototype.toLowerCase on one character (the /i flag of a regex)
ToLower(c) ==
  IF c \in Range(UpperLetters)
    THEN LowerLetters[CHOOSE i \in 1..26 : UpperLetters[i] = c]
    ELSE c

LowerCase(s) == [i \in 1..Len(s) |-> ToLower(s[i])]

\* the literal lit occurs in s at index i (1-based)
HasAt(s, i, lit) ==
  /\ i >= 1
  /\ i + Len(lit) - 1 <= Len(s)
  /\ SubSeq(s, i, i + Len(lit) - 1) = lit

\* String.prototype.endsWith
EndsWith(s, lit) == Len(s) >= Len(lit) /\ HasAt(s, Len(s) - Len(lit) + 1, lit)

\* String.prototype.startsWith
StartsWith(s, lit) == HasAt(s, 1, lit)

\* a greedy character class: the last index of the maximal run of Class
\* characters of s that starts at index i (i - 1 when the run is empty)
RunEnd(s, i, Class) ==
  LET stop == {k \in i..Len(s) : s[k] \notin Class}
  IN  IF stop = {} THEN Len(s) ELSE MinOf(stop) - 1

\* the first index of the maximal run of Class characters that ends at index i
RunStart(s, i, Class) ==
  LET stop == {k \in 1..i : s[k] \notin Class}
  IN  IF stop = {} THEN 1 ELSE (CHOOSE x \in stop : \A y \in stop : y <= x) + 1

\* String.prototype.trim
Trim(s) ==
  LET keep == {k \in 1..Len(s) : s[k] \notin Whitespace}
  IN  IF keep = {} THEN <<>>
      ELSE SubSeq(s, MinOf(keep), CHOOSE x \in keep : \A y \in keep : y <= x)

\* String.prototype.split on a one-character separator
RECURSIVE Split(_, _)
Split(s, sep) ==
  LET at == {k \in 1..Len(s) : s[k] = sep}
  IN  IF at = {} THEN <<s>>
      ELSE <<SubSeq(s, 1, MinOf(at) - 1)>> \o Split(SubSeq(s, MinOf(at) + 1, Len(s)), sep)

\* Array.prototype.join: the lines of a document joined by line feeds
RECURSIVE JoinLines(_)
JoinLines(ls) ==
  IF ls = <<>> THEN <<>>
  ELSE IF Len(ls) = 1 THEN ls[1]
  ELSE ls[1] \o <<"\n">> \o JoinLines(Tail(ls))

(* ------------------------ completion items ---------------------------- *)

\* new vscode.CompletionItem(label, kind) with every optional field unset
CompletionItem(label, kind) ==
  [label |-> label, kind |-> kind, detail |-> "", documentation |-> <<>>,
   insertText |-> <<>>, range |-> <<>>, filterText |-> <<>>, sortText |-> "",
   preselect |-> FALSE, command |-> ""]

Labels(items) == [i \in 1..Len(items) |-> items[i].label]

\* createFieldItem(label, doc)
createFieldItem(label, doc) ==
  [CompletionItem(label, "Field") EXCEPT !.detail = doc]

\* the retriggerCommand of getBlockCompletions
RetriggerCommand == "editor.action.triggerSuggest"

\* a faulty variant of SnippetItem that sets no command
SnippetItemNoCommand(label, detail, insertText, range, filterText, sortText, preselect) ==
  [CompletionItem(label, "Snippet") EXCEPT
     !.detail = detail, !.insertText = insertText, !.range = range,
     !.filterText = filterText, !.sortText = sortText, !.preselect = preselect]

\* one block snippet of getBlockCompletions
SnippetItem(label, detail, insertText, range, filterText, sortText, preselect) ==
  [CompletionItem(label, "Snippet") EXCEPT
     !.detail = detail, !.insertText = insertText, !.range = range,
     !.filterText = filterText, !.sortText = sortText, !.preselect = preselect,
     !.command = RetriggerCommand]

\* position.translate(0, -1) throws when the column would become negative
TranslateThrows(position) == position.character - 1 < 0

\* document.lineAt(position).text
LineAt(document, position) == document[position.line + 1]

\* document.getText()
GetText(document) == JoinLines(document)

\* document.getText(new Range(position, position.translate(0, 1))): the
\* character right after the cursor, or nothing at the end of the line
NextChar(document, position) ==
  LET line == LineAt(document, position)
  IN  IF position.character + 1 <= Len(line)
        THEN <<line[position.character + 1]>> ELSE <<>>

\* a faulty variant of ReplaceRange that ignores an auto-closed brace
ReplaceRangeNoAutoClose(position, document) ==
  <<position.character - 1, position.character>>

\* the replace range of the block snippets, as <<start column, end column>>
ReplaceRange(position, document) ==
  <<position.character - 1,
    IF NextChar(document, position) = <<"}">>
      THEN position.character + 1 ELSE position.character>>

\* getBlockCompletions; the empty list stands for its undefined
getBlockCompletions(linePrefix, position, document) ==
  LET replaceRange == ReplaceRange(position, document) IN
  IF EndsWith(linePrefix, <<"{","-">>) THEN
    << SnippetItem(<<"{","-"," ","c","o","m","m","a","n","d"," ","-","}">>, "Allay Command Block", <<"-"," ","$","0"," ","-","}">>,
                   replaceRange, <<"-">>, "001", TRUE) >>
  ELSE IF EndsWith(linePrefix, <<"{",":">>) THEN
    << SnippetItem(<<"{",":"," ","e","x","p","r","e","s","s","i","o","n"," ",":","}">>, "Allay Expression Block", <<":"," ","$","0"," ",":","}">>,
                   replaceRange, <<":">>, "001", TRUE) >>
  ELSE IF EndsWith(linePrefix, <<"{","<">>) THEN
    << SnippetItem(<<"{","<"," ","s","h","o","r","t","c","o","d","e"," ",">","}">>, "Shortcode Call", <<"<"," ","$","1"," ",">","}","$","0">>,
                   replaceRange, <<"<">>, "001", FALSE),
       SnippetItem(<<"{","<"," ","s","h","o","r","t","c","o","d","e"," ","/",">","}">>, "Self-closing Shortcode", <<"<"," ","$","1"," ","/",">","}">>,
                   replaceRange, <<"<">>, "002", FALSE),
       SnippetItem(<<"{","<"," ","p","a","i","r"," ",">","}",".",".",".","{","<","/"," ","p","a","i","r"," ",">","}">>, "Shortcode Block Pair",
                   <<"<"," ","$","1"," ",">","}","\n","\t","$","0","\n","{","<","/"," ","$","1"," ",">","}">>, replaceRange, <<"<">>, "003", FALSE) >>
  ELSE <<>>

\* new vscode.SnippetString(t) as the editor inserts it: the text without its
\* tab stops $0, $1
RECURSIVE PlainText(_)
PlainText(t) ==
  IF t = <<>> THEN <<>>
  ELSE IF t[1] = "$" /\ Len(t) >= 2 /\ t[2] \in Digits THEN PlainText(SubSeq(t, 3, Len(t)))
  ELSE <<t[1]>> \o PlainText(Tail(t))

\* the line after the editor replaced the columns range[1]..range[2] by text
Replaced(line, range, text) ==
  SubSeq(line, 1, range[1]) \o text \o SubSeq(line, range[2] + 1, Len(line))

\* where the editor puts the cursor in an inserted snippet: at its first tab
\* stop ($1 when there is one, else the final stop $0, else the end)
FirstStop(t) ==
  LET stops(d) == {i \in 1..(Len(t) - 1) : t[i] = "$" /\ t[i + 1] = d}
  IN  IF stops("1") # {} THEN MinOf(stops("1"))
      ELSE IF stops("0") # {} THEN MinOf(stops("0"))
      ELSE Len(t) + 1

\* the editor accepts a block snippet: item.insertText replaces item.range on
\* the cursor line and the cursor moves to the first tab stop; item.command
\* then asks for suggestions there
AcceptSnippet(document, position, item) ==
  LET line   == LineAt(document, position)
      lines  == Split(Replaced(line, item.range, PlainText(item.insertText)), "\n")
      before == Split(PlainText(SubSeq(item.insertText, 1, FirstStop(item.insertText) - 1)), "\n")
      last   == before[Len(before)]
  IN  [document |-> SubSeq(document, 1, position.line) \o lines
                     \o SubSeq(document, position.line + 2, Len(document)),
       position |-> [line |-> position.line + Len(before) - 1,
                     character |-> IF Len(before) = 1 THEN item.range[1] + Len(last)
                                   ELSE Len(last)]]

\* getControlKeywords
ControlKeywords ==
  << <<"s","e","t">>, <<"f","o","r">>, <<"w","i","t","h">>, <<"i","f">>, <<"e","l","s","e"," ","i","f">>, <<"e","l","s","e">>, <<"e","n","d">>,
     <<"i","n","c","l","u","d","e">>, <<"e","x","t","e","n","d","s">>, <<"g","e","t">>, <<"p","a","r","a","m">> >>

getControlKeywords ==
  [i \in 1..Len(ControlKeywords) |->
     [CompletionItem(ControlKeywords[i], "Keyword") EXCEPT !.detail = "Allay Command"]]

\* getOutputKeywords
getOutputKeywords ==
  << [CompletionItem(<<"b","l","o","c","k">>, "Keyword") EXCEPT
        !.detail = "Allay Block Definition",
        !.documentation =
          <<"D","e","f","i","n","e"," ","a"," ","b","l","o","c","k"," ","f","o","r"," ","t","e","m","p","l","a","t","e"," ","i","n","h","e","r","i","t","a","n","c","e",":"," ",Backtick,"{",":"," ","b","l","o","c","k"," ","\"","n","a","m","e","\""," ",":","}",Backtick>>] >>

(* ------------------------ context classifier -------------------------- *)

\* linePrefix.match(/\{-(?:\s*)(?:include|extends)\s+"([^"]*)$/) tried at index i
includeMatchAt(s, i) ==
  /\ HasAt(s, i, <<"{","-">>)
  /\ LET j == RunEnd(s, i + 2, Whitespace) + 1 IN
     \E kw \in {<<"i","n","c","l","u","d","e">>, <<"e","x","t","e","n","d","s">>} :
       /\ HasAt(s, j, kw)
       /\ LET k == j + Len(kw)
              q == RunEnd(s, k, Whitespace) + 1
          IN  /\ q > k
              /\ q <= Len(s)
              /\ s[q] = "\""
              /\ \A x \in (q + 1)..Len(s) : s[x] # "\""

\* a faulty variant of includeMatch whose pattern forgets extends
includeMatchOnlyInclude(linePrefix) ==
  \E i \in 1..Len(linePrefix) :
    includeMatchAt(linePrefix, i) /\ ~(\E j \in 1..Len(linePrefix) : HasAt(linePrefix, j, <<"e","x","t","e","n","d","s">>))

\* linePrefix.match(/\{-(?:\s*)(?:include|extends)\s+"([^"]*)$/)
includeMatch(linePrefix) == \E i \in 1..Len(linePrefix) : includeMatchAt(linePrefix, i)

\* a faulty variant of openBlockMatch that takes every line for an open block
openBlockMatchAnywhere(linePrefix) == TRUE

\* linePrefix.match(/(\{:|\{-)([^}]+)$/)
openBlockMatch(linePrefix) ==
  \E i \in 1..Len(linePrefix) :
    /\ HasAt(linePrefix, i, <<"{",":">>) \/ HasAt(linePrefix, i, <<"{","-">>)
    /\ i + 2 <= Len(linePrefix)
    /\ \A x \in (i + 2)..Len(linePrefix) : linePrefix[x] # "}"

\* linePrefix.match(/([a-zA-Z0-9_.]*)\.$/): whether it matches
dotMatch(linePrefix) == EndsWith(linePrefix, <<".">>)

\* a faulty variant of dotMatchGroup1 whose character class admits the sigil
dotMatchGroup1WithSigil(linePrefix) ==
  LET n == Len(linePrefix)
  IN  SubSeq(linePrefix, RunStart(linePrefix, n, WordChars \cup {".", "$"}), n - 1)

\* dotMatch[1]: the run of [a-zA-Z0-9_.] that ends right before the last dot
dotMatchGroup1(linePrefix) ==
  LET n == Len(linePrefix)
  IN  SubSeq(linePrefix, RunStart(linePrefix, n, WordChars \cup {"."}), n - 1)

\* linePrefix.match(/\{-([^}]*)$/)
commandBlockMatch(linePrefix) ==
  \E i \in 1..Len(linePrefix) :
    /\ HasAt(linePrefix, i, <<"{","-">>)
    /\ \A x \in (i + 2)..Len(linePrefix) : linePrefix[x] # "}"

\* linePrefix.match(/\{:([^}]*)$/)
expressionBlockMatch(linePrefix) ==
  \E i \in 1..Len(linePrefix) :
    /\ HasAt(linePrefix, i, <<"{",":">>)
    /\ \A x \in (i + 2)..Len(linePrefix) : linePrefix[x] # "}"

\* linePrefix.match(/\{<\/?([^>}]*)$/)
shortcodeMatch(linePrefix) ==
  \E i \in 1..Len(linePrefix) :
    /\ HasAt(linePrefix, i, <<"{","<">>)
    /\ LET k == IF HasAt(linePrefix, i + 2, <<"/">>) THEN {i + 2, i + 3} ELSE {i + 2}
       IN  \E from \in k : \A x \in from..Len(linePrefix) : linePrefix[x] \notin {">", "}"}

(* ------------------------- document scanner --------------------------- *)

\* the 12 static entries of getCommonExpressions (sections A, B and C)
StaticExpressions ==
  [i \in 1..4 |-> [CompletionItem(<< <<"t","h","i","s">>, <<"s","i","t","e">>, <<"p","a","g","e","s">>, <<"p","a","r","a","m">> >>[i], "Variable")
                     EXCEPT !.detail = "Allay Built-in Variable"]]
  \o << [CompletionItem(<<"n","u","l","l">>, "Constant") EXCEPT !.detail = "Allay Constant"] >>
  \o [i \in 1..6 |-> [CompletionItem(<< <<"l","e","n">>, <<"s","l","i","c","e">>, <<"a","p","p","e","n","d">>, <<"l","i","s","t">>,
                                        <<"f","o","r","m","a","t","_","d","a","t","e">>, <<"t","r","u","n","c","a","t","e">> >>[i], "Function")
                        EXCEPT !.detail = "Allay Built-in Function"]]
  \o << [CompletionItem(<<"e","n","d">>, "Function") EXCEPT !.detail = "Allay Keyword"] >>

\* [\$a-zA-Z0-9_,\s] of varRegex
VarChars == WordChars \cup {"$", ","} \cup Whitespace

\* varRegex = /\{-\s*(?:set|for)\s+([\$a-zA-Z0-9_,\s]+)(?:=|:)/g tried at index i:
\* whether it matches, its group 1 and the index of its last character
varMatchAt(text, i) ==
  LET j   == RunEnd(text, i + 2, Whitespace) + 1
      k   == j + 3
      e   == RunEnd(text, k, VarChars)
      w   == RunEnd(text, k, Whitespace)
      ok  == /\ HasAt(text, i, <<"{","-">>)
             /\ HasAt(text, j, <<"s","e","t">>) \/ HasAt(text, j, <<"f","o","r">>)
             /\ k <= Len(text) /\ text[k] \in Whitespace
             /\ e >= k + 1
             /\ e + 1 <= Len(text) /\ text[e + 1] \in {"=", ":"}
  IN  [ok |-> ok,
       group1 |-> IF ~ok THEN <<>>
                  ELSE IF w < e THEN SubSeq(text, w + 1, e) ELSE SubSeq(text, e, e),
       last |-> e + 1]

\* match[1].split(',').map(v => v.trim()).filter(v => v.startsWith('$'))
varsOf(group1) ==
  LET parts   == Split(group1, ",")
      trimmed == [i \in 1..Len(parts) |-> Trim(parts[i])]
  IN  SelectSeq(trimmed, LAMBDA v : StartsWith(v, <<"$">>))

\* a faulty variant of pushVars that never consults existingLabels
RECURSIVE pushVarsUnchecked(_, _, _)
pushVarsUnchecked(vars, items, existingLabels) ==
  IF vars = <<>> THEN [items |-> items, existingLabels |-> existingLabels]
  ELSE pushVarsUnchecked(Tail(vars),
                         Append(items, [CompletionItem(Head(vars), "Variable")
                                          EXCEPT !.detail = "User Defined Variable"]),
                         existingLabels)

\* vars.forEach(v => { if (!existingLabels.has(v)) { items.push(...); existingLabels.add(v); } })
RECURSIVE pushVars(_, _, _)
pushVars(vars, items, existingLabels) ==
  IF vars = <<>> THEN [items |-> items, existingLabels |-> existingLabels]
  ELSE IF Head(vars) \in existingLabels
    THEN pushVars(Tail(vars), items, existingLabels)
    ELSE pushVars(Tail(vars),
                  Append(items, [CompletionItem(Head(vars), "Variable")
                                   EXCEPT !.detail = "User Defined Variable"]),
                  existingLabels \cup {Head(vars)})

\* while ((match = varRegex.exec(text)) !== null) { ... }, from lastIndex
RECURSIVE scanVars(_, _, _, _)
scanVars(text, lastIndex, items, existingLabels) ==
  LET starts == {i \in lastIndex..Len(text) : varMatchAt(text, i).ok}
  IN  IF starts = {} THEN items
      ELSE LET m    == varMatchAt(text, MinOf(starts))
               next == pushVars(varsOf(m.group1), items, existingLabels)
           IN  scanVars(text, m.last + 1, next.items, next.existingLabels)

\* getCommonExpressions
getCommonExpressions(document) ==
  scanVars(GetText(document), 1, StaticExpressions, Range(Labels(StaticExpressions)))

\* standardFields of getMarkdownPageKeys
StandardFields ==
  << <<"t","i","t","l","e">>, <<"d","a","t","e">>, <<"d","e","s","c","r","i","p","t","i","o","n">>, <<"t","a","g","s">>, <<"t","e","m","p","l","a","t","e">>, <<"u","r","l">>,
     <<"h","e","a","d">>, <<"c","o","n","t","e","n","t">> >>

\* [a-zA-Z0-9_-] of both key regexes
KeyChars == WordChars \cup {"-"}

\* ^ under the m flag: the start of the text or of a line
LineStart(text, i) == i = 1 \/ (i - 1 <= Len(text) /\ text[i - 1] \in {"\n", "\r"})

\* text.match(/^---\s*([\s\S]*?)\s*---/): whether it matches and its group 1
yamlMatch(text) ==
  LET a    == RunEnd(text, 4, Whitespace) + 1
      ends == {p \in a..(Len(text) + 1) :
                 HasAt(text, RunEnd(text, p, Whitespace) + 1, <<"-","-","-">>)}
  IN  IF HasAt(text, 1, <<"-","-","-">>) /\ ends # {}
        THEN [ok |-> TRUE, group1 |-> SubSeq(text, a, MinOf(ends) - 1)]
        ELSE [ok |-> FALSE, group1 |-> <<>>]

\* /^\s*([a-zA-Z0-9_-]+):/gm tried at index i
yamlKeyMatchAt(text, i) ==
  LET j == RunEnd(text, i, Whitespace) + 1
      e == RunEnd(text, j, KeyChars)
  IN  [ok |-> LineStart(text, i) /\ e >= j /\ e + 1 <= Len(text) /\ text[e + 1] = ":",
       group1 |-> SubSeq(text, j, e),
       last |-> e + 1]

\* the while loop of getMarkdownPageKeys over yamlContent
RECURSIVE scanYamlKeys(_, _, _, _)
scanYamlKeys(text, lastIndex, items, existingKeys) ==
  LET starts == {i \in lastIndex..Len(text) : yamlKeyMatchAt(text, i).ok}
  IN  IF starts = {} THEN items
      ELSE LET m == yamlKeyMatchAt(text, MinOf(starts))
           IN  scanYamlKeys(text, m.last + 1,
                 IF m.group1 \notin existingKeys
                   THEN Append(items, createFieldItem(m.group1,
                                 "Front-matter variable from current file"))
                   ELSE items,
                 existingKeys)

\* getMarkdownPageKeys
getMarkdownPageKeys(document) ==
  LET standard == [i \in 1..Len(StandardFields) |->
                     createFieldItem(StandardFields[i], "Standard Page Metadata")]
      m == yamlMatch(GetText(document))
  IN  IF m.ok THEN scanYamlKeys(m.group1, 1, standard, Range(StandardFields))
      ELSE standard

(* ------------------------- external lookups --------------------------- *)

\* uri.fsPath of a file the enumerator returns: root/dir/name.ext
FsPath(file) == file.root \o <<"/">> \o file.dir \o <<"/">> \o file.name \o <<".">> \o file.ext

\* path.basename(p): what follows the last separator
Basename(p) == SubSeq(p, RunStart(p, Len(p), Range(p) \ {"/"}), Len(p))

\* path.extname(p): from the last dot of the base name, unless that dot leads it
Extname(p) ==
  LET base == Basename(p)
      dots == {k \in 1..Len(base) : base[k] = "."}
      last == CHOOSE x \in dots : \A y \in dots : y <= x
  IN  IF dots = {} \/ last = 1 THEN <<>> ELSE SubSeq(base, last, Len(base))

\* a faulty variant of ParseName that keeps the extension
ParseNameWithExt(p) == Basename(p)

\* path.parse(p).name
ParseName(p) == SubSeq(Basename(p), 1, Len(Basename(p)) - Len(Extname(p)))

\* path.basename(p, ext)
BasenameWithout(p, ext) ==
  LET base == Basename(p)
  IN  IF ext # <<>> /\ base # ext /\ EndsWith(base, ext)
        THEN SubSeq(base, 1, Len(base) - Len(ext)) ELSE base

\* vscode.workspace.asRelativePath(file)
AsRelativePath(file) ==
  LET p == FsPath(file)
  IN  IF StartsWith(p, file.root \o <<"/">>)
        THEN SubSeq(p, Len(file.root) + 2, Len(p)) ELSE p

\* the mapping of getTemplateFileCompletions over one enumerated file
TemplateItem(file) ==
  [CompletionItem(ParseName(FsPath(file)), "File") EXCEPT
     !.detail = "Template File",
     !.documentation = <<"L","o","c","a","t","e","d"," ","a","t",":"," ",Backtick>> \o AsRelativePath(file) \o <<Backtick>>]

\* getTemplateFileCompletions, resumed with the files findFiles returned
getTemplateFileCompletions(files) == [i \in 1..Len(files) |-> TemplateItem(files[i])]

\* a faulty variant of addShortcodeNames that collects into an array, not a Set
RECURSIVE addShortcodeNamesArray(_, _)
addShortcodeNamesArray(files, shortcodeNames) ==
  IF files = <<>> THEN shortcodeNames
  ELSE addShortcodeNamesArray(Tail(files),
         Append(shortcodeNames,
                BasenameWithout(FsPath(Head(files)), Extname(FsPath(Head(files))))))

\* files.forEach(file => shortcodeNames.add(name)): a Set keeps insertion order
RECURSIVE addShortcodeNames(_, _)
addShortcodeNames(files, shortcodeNames) ==
  IF files = <<>> THEN shortcodeNames
  ELSE LET p    == FsPath(Head(files))
           name == BasenameWithout(p, Extname(p))
       IN  addShortcodeNames(Tail(files),
             IF name \in Range(shortcodeNames) THEN shortcodeNames
             ELSE Append(shortcodeNames, name))

\* the item getShortcodeCompletions builds for one name
ShortcodeItem(name) ==
  [CompletionItem(name, "Snippet") EXCEPT
     !.detail = "Allay Shortcode",
     !.documentation = <<"S","h","o","r","t","c","o","d","e"," ","d","e","f","i","n","e","d"," ","i","n"," ","*","*","s","h","o","r","t","c","o","d","e","s","/">> \o name \o <<".","(","m","d","|","h","t","m","l",")","*","*">>]

\* getShortcodeCompletions, resumed with the files findFiles returned
getShortcodeCompletions(files) ==
  LET shortcodeNames == addShortcodeNames(files, <<>>)
  IN  [i \in 1..Len(shortcodeNames) |-> ShortcodeItem(shortcodeNames[i])]

\* text.match(/\[Param\]([\s\S]*?)(?:\[|$)/i): whether it matches and its group 1
paramBlockMatch(text) ==
  LET lower  == LowerCase(text)
      starts == {i \in 1..Len(text) : HasAt(lower, i, <<"[","p","a","r","a","m","]">>)}
      from   == MinOf(starts) + 7
      stops  == {k \in from..Len(text) : text[k] = "["}
  IN  IF starts = {} THEN [ok |-> FALSE, group1 |-> <<>>]
      ELSE [ok |-> TRUE,
            group1 |-> SubSeq(text, from,
                              IF stops = {} THEN Len(text) ELSE MinOf(stops) - 1)]

\* /^\s*([a-zA-Z0-9_-]+)\s*=/gm tried at index i
configKeyMatchAt(text, i) ==
  LET j == RunEnd(text, i, Whitespace) + 1
      e == RunEnd(text, j, KeyChars)
      q == RunEnd(text, e + 1, Whitespace) + 1
  IN  [ok |-> LineStart(text, i) /\ e >= j /\ q <= Len(text) /\ text[q] = "=",
       group1 |-> SubSeq(text, j, e),
       last |-> q]

\* the while loop of getAllayConfigKeys over paramContent
RECURSIVE scanConfigKeys(_, _, _)
scanConfigKeys(text, lastIndex, items) ==
  LET starts == {i \in lastIndex..Len(text) : configKeyMatchAt(text, i).ok}
  IN  IF starts = {} THEN items
      ELSE LET m == configKeyMatchAt(text, MinOf(starts))
           IN  scanConfigKeys(text, m.last + 1,
                 Append(items, createFieldItem(m.group1, "Config from allay.toml")))

\* the try block of getAllayConfigKeys, resumed with the text of allay.toml
parseAllayConfig(text) ==
  LET m == paramBlockMatch(text)
  IN  IF m.ok THEN scanConfigKeys(m.group1, 1, <<>>) ELSE <<>>

\* the two fixed items getFieldCompletions returns for parent 'site'
SiteFields ==
  << createFieldItem(<<"p","a","r","a","m">>, "Global configurations from allay.toml"),
     createFieldItem(<<"p","a","g","e","s">>, "List of all markdown pages") >>

\* a faulty variant of fieldBranch that takes every root under site for site
fieldBranchSitePrefix(parent) ==
  IF StartsWith(parent, <<"s","i","t","e">>) THEN "site"
  ELSE IF parent = <<>> \/ EndsWith(parent, <<"p","a","g","e">>) THEN "page"
  ELSE "none"

\* the branch getFieldCompletions takes for a parent
fieldBranch(parent) ==
  IF parent = <<"s","i","t","e">> THEN "site"
  ELSE IF parent = <<"s","i","t","e",".","p","a","r","a","m">> THEN "config"
  ELSE IF parent = <<>> \/ EndsWith(parent, <<"p","a","g","e">>) THEN "page"
  ELSE "none"

(* ------------------------------ inputs -------------------------------- *)

\* bounds of the model
MaxRequests == 2
MaxKeys == 2
MaxStmts == 2
MaxFiles == 2
MaxConfigLines == 3

SeqsUpTo(S, n) == UNION {[1..k -> S] : k \in 0..n}

\* the sequences over S of length at most n that repeat no element
DistinctSeqsUpTo(S, n) ==
  {s \in SeqsUpTo(S, n) : \A i, j \in 1..Len(s) : i # j => s[i] # s[j]}

RECURSIVE Flatten(_)
Flatten(ss) == IF ss = <<>> THEN <<>> ELSE Head(ss) \o Flatten(Tail(ss))

\* keys an author may write in the front-matter; title is a standard field
FrontMatterKeys == {<<"a","u","t","h","o","r">>, <<"t","i","t","l","e">>, <<"d","r","a","f","t">>}

\* a document head: no front-matter, or a leading --- block of key lines
FrontMatters ==
  {[present |-> FALSE, keys |-> <<>>]}
  \cup {[present |-> TRUE, keys |-> ks] : ks \in SeqsUpTo(FrontMatterKeys, MaxKeys)}

FrontMatterLines(fm) ==
  IF fm.present
    THEN <<<<"-","-","-">>>> \o [i \in 1..Len(fm.keys) |-> fm.keys[i] \o <<":"," ","v">>] \o <<<<"-","-","-">>>>
    ELSE <<>>

\* statement lines of a template, each with the names it binds
Statements ==
  { [text |-> <<"{","-"," ","s","e","t"," ","$","a"," ","="," ","1"," ","-","}">>,      binds |-> <<<<"$","a">>>>],
    [text |-> <<"{","-"," ","f","o","r"," ","$","b",","," ","$","a"," ",":"," ","$","c"," ","-","}">>, binds |-> <<<<"$","b">>, <<"$","a">>>>],
    [text |-> <<"{","-","s","e","t"," ","$","b","=","2","-","}">>,          binds |-> <<<<"$","b">>>>],
    [text |-> <<"{",":"," ","$","d"," ",":","}">>,              binds |-> <<>>],
    [text |-> <<"{","-"," ","i","f"," ","$","a"," ","-","}">>,           binds |-> <<>>],
    [text |-> <<"s","e","t"," ","$","e"," ","="," ","1">>,            binds |-> <<>>],
    [text |-> <<"{","-","\t","s","e","t"," ","$","f"," ",",","$","a","="," ","1"," ","-","}">>,  binds |-> <<<<"$","f">>, <<"$","a">>>>] }

\* the line the cursor is on: the text before the cursor, the text after it
\* and the names a set/for statement on it binds
CursorLine(prefix, suffix) == [prefix |-> prefix, suffix |-> suffix, binds |-> <<>>]

\* cursor lines that end in a block opener, with what may follow the cursor
OpenerLines ==
  {CursorLine(p, s) : p \in {<<"{","-">>, <<"{",":">>, <<"{","<">>, <<"a","b"," ","{","-">>},
                      s \in {<<>>, <<"}">>, <<"x">>, <<"}","}">>}}

\* cursor lines of an include/extends path
PathLines ==
  {CursorLine(p, <<>>) :
     p \in {<<"{","-"," ","i","n","c","l","u","d","e"," ","\"">>, <<"{","-"," ","i","n","c","l","u","d","e"," ","\"","t","e">>, <<"{","-","e","x","t","e","n","d","s"," ","\"","a">>, <<"{","-"," ","i","n","c","l","u","d","e"," ","\"","{","-">>,
            <<"{","-"," ","i","n","c","l","u","d","e"," ","\"","a","}","b">>, <<"{","-"," ","i","n","c","l","u","d","e"," ","\"","s","i","t","e",".">>}}

\* cursor lines that end in a dot
DotLines ==
  {CursorLine(p, <<>>) :
     p \in {<<"{","-"," ","s","i","t","e",".">>, <<"{",":"," ","s","i","t","e",".">>, <<"{","-"," ","$","s","i","t","e",".">>, <<"{",":"," ","s","i","t","e",".","p","a","r","a","m",".">>, <<"{",":"," ",".">>,
            <<"{","-",".">>, <<"{",":"," ","t","h","i","s",".","p","a","g","e",".">>, <<"{","-"," ","$","x",".">>, <<"{",":"," ","s","i","t","e",".","p","a","g","e","s",".">>, <<"s","i","t","e",".">>,
            <<"{","-"," ","a"," ","-","}"," ","s","i","t","e",".">>, <<"{","-"," ","a"," ","}"," ","s","i","t","e",".">>, <<"{","<"," ","a",".">>,
            <<"{",":"," ","h","o","m","e","p","a","g","e",".">>, <<"{","-"," ","$","s","i","t","e",".","p","a","r","a","m",".">>}}

\* cursor lines inside or outside block bodies
BodyLines ==
  {CursorLine(p, <<>>) :
     p \in {<<>>, <<"t","e","x","t">>, <<"{","-"," ","i","f"," ">>, <<"{",":"," ","l","e">>, <<"{","-"," ","a"," ","-","}"," ">>, <<"{","-"," ","i","n","c","l","u","d","e"," ","\"","a","\""," ">>,
            <<"{","<"," ","f","i","g">>, <<"{","<","/">>, <<"{","<"," ","a"," ",">","}">>, <<"{","-"," ","x"," ","{",":"," ">>, <<"{",":"," ","a"," ",":","}"," ","{","<">>,
            <<"{","-"," ","a"," ","}"," ">>, <<"{","-"," ","a"," ",":","}"," ">>, <<"{",":"," ","a"," ","-","}"," ">>, <<"{",":"," ","a"," ",":","}"," ","{","-"," ","b"," ">>}}
  \cup {[prefix |-> <<"{","-"," ","f","o","r"," ","$","i"," ",":"," ">>, suffix |-> <<>>, binds |-> <<<<"$","i">>>>]}

CursorLines == OpenerLines \cup PathLines \cup DotLines \cup BodyLines

\* the cursor lines under which documents with content are edited
EditingLines ==
  {l \in CursorLines :
     l.suffix = <<>> /\
     l.prefix \in {<<"{","-">>, <<"{",":">>, <<"{","-"," ","i","f"," ">>, <<"{",":"," ","l","e">>, <<"{","-"," ","x"," ","{",":"," ">>, <<"{",":"," ",".">>,
                   <<"{",":"," ","t","h","i","s",".","p","a","g","e",".">>, <<"{","-"," ","f","o","r"," ","$","i"," ",":"," ">>}}

\* a request's input: the document (its lines), the cursor position and what
\* the author wrote in it (front-matter keys, bound names in document order)
Input(fm, stmts, line) ==
  LET before == FrontMatterLines(fm) \o [i \in 1..Len(stmts) |-> stmts[i].text]
  IN  [document |-> before \o <<line.prefix \o line.suffix>>,
       position |-> [line |-> Len(before), character |-> Len(line.prefix)],
       authored |-> [frontMatter |-> fm.present, keys |-> fm.keys,
                     binds |-> Flatten([i \in 1..Len(stmts) |-> stmts[i].binds])
                               \o line.binds]]

NoFrontMatter == [present |-> FALSE, keys |-> <<>>]

\* every cursor line over an otherwise empty document; documents with a
\* front-matter or with statements under the editing lines
Inputs ==
  {Input(NoFrontMatter, <<>>, l) : l \in CursorLines}
  \cup {Input(fm, <<>>, l) : fm \in FrontMatters, l \in EditingLines}
  \cup {Input(NoFrontMatter, ss, l) :
          ss \in SeqsUpTo(Statements, MaxStmts), l \in EditingLines}
  \cup {Input([present |-> TRUE, keys |-> <<<<"a","u","t","h","o","r">>>>], <<s>>, l) :
          s \in Statements, l \in EditingLines}

\* the inputs of overlapping requests
OverlapInputs ==
  {Input(NoFrontMatter, <<>>, CursorLine(p, <<>>)) :
     p \in {<<"{","<">>, <<"{","-"," ","i","n","c","l","u","d","e"," ","\"">>, <<"{",":"," ","s","i","t","e",".","p","a","r","a","m",".">>, <<"{","-"," ","i","f"," ">>, <<"{","<"," ","f","i","g">>}}

\* the workspace folder
WorkspaceRoot == <<"/","w">>

File(dir, name, ext) == [root |-> WorkspaceRoot, dir |-> dir, name |-> name, ext |-> ext]

\* files findFiles('**/templates/*.{html,md}') may return
TemplateFiles ==
  { File(<<"t","e","m","p","l","a","t","e","s">>, <<"a">>, <<"h","t","m","l">>), File(<<"t","e","m","p","l","a","t","e","s">>, <<"b">>, <<"m","d">>),
    File(<<"t","e","m","p","l","a","t","e","s">>, <<"a">>, <<"m","d">>), File(<<"x","/","t","e","m","p","l","a","t","e","s">>, <<"a">>, <<"h","t","m","l">>),
    File(<<"t","e","m","p","l","a","t","e","s">>, <<"a",".","b">>, <<"h","t","m","l">>) }

\* files findFiles('**/shortcodes/*.{html,md}') may return
ShortcodeFiles ==
  { File(<<"s","h","o","r","t","c","o","d","e","s">>, <<"f","i","g">>, <<"h","t","m","l">>), File(<<"s","h","o","r","t","c","o","d","e","s">>, <<"f","i","g">>, <<"m","d">>),
    File(<<"x","/","s","h","o","r","t","c","o","d","e","s">>, <<"f","i","g">>, <<"h","t","m","l">>), File(<<"s","h","o","r","t","c","o","d","e","s">>, <<"n","o","t","e">>, <<"m","d">>),
    File(<<"s","h","o","r","t","c","o","d","e","s">>, <<"a",".","b">>, <<"m","d">>) }

TemplateListings == DistinctSeqsUpTo(TemplateFiles, MaxFiles)
ShortcodeListings == DistinctSeqsUpTo(ShortcodeFiles, MaxFiles)

OverlapListings(Files) ==
  {s \in DistinctSeqsUpTo(Files, 1) : \A i \in 1..Len(s) : s[i].ext = <<"h","t","m","l">>}

\* lines of allay.toml: section headers and key = value pairs
Header(name) == [kind |-> "header", name |-> name, text |-> <<"[">> \o name \o <<"]">>]
Pair(key, eq, value) == [kind |-> "pair", name |-> key, text |-> key \o eq \o value]

ConfigLines ==
  { Header(<<"P","a","r","a","m">>), Header(<<"p","a","r","a","m">>), Header(<<"O","t","h","e","r">>),
    Pair(<<"a">>, <<" ","="," ">>, <<"1">>), Pair(<<"b">>, <<" ","="," ">>, <<"[","2","]">>), Pair(<<"c","-","d">>, <<"=">>, <<"\"","x","\"">>) }

\* allay.toml files: their lines; the text is the lines joined
ConfigFiles == SeqsUpTo(ConfigLines, MaxConfigLines)

ConfigText(config) == JoinLines([i \in 1..Len(config) |-> config[i].text])

OverlapConfigFiles == {<<Header(<<"P","a","r","a","m">>), Pair(<<"a">>, <<" ","="," ">>, <<"1">>)>>}

(* ------------------ the host layer: extension.ts ---------------------- *)

\* bounds of the host layer: processes spawned and panels created
MaxSpawns == 6
MaxPanels == 5

VARIABLES
  serverProcess,    \* the held ChildProcess: 0 for null, else its number
  previewPanel,     \* the held WebviewPanel: 0 for null, else its number
  processes,        \* every process spawned so far, with whether kill() was called
  panels,           \* every panel created so far, with its state
  workspaceFolders, \* the number of workspace folders of this activation
  activated,        \* the extension is activated and not yet deactivated
  hostEvent         \* the last host event and the handles it found

hostVars == <<serverProcess, previewPanel, processes, panels, workspaceFolders,
              activated, hostEvent>>

\* a faulty variant of kill that leaves the process running
killIgnored(procs, p) == procs

\* serverProcess.kill() on process p
kill(procs, p) == [procs EXCEPT ![p].killed = TRUE]

\* spawn(allayExecutable, ['--root', projectRoot, 'serve'], ...)
spawn(procs) == Append(procs, [killed |-> FALSE])

\* a faulty variant of startService that keeps a held handle instead of
\* spawning a new process
startServiceKeepsHandle(handle, procs) ==
  IF handle # 0 THEN [serverProcess |-> handle, processes |-> kill(procs, handle)]
  ELSE [serverProcess |-> Len(procs) + 1, processes |-> spawn(procs)]

\* startService(projectRoot): kill the held process if any, spawn a new one
\* and hold it
startService(handle, procs) ==
  LET stopped == IF handle # 0 THEN kill(procs, handle) ELSE procs
  IN  [serverProcess |-> Len(stopped) + 1, processes |-> spawn(stopped)]

\* the onDidDispose listener of the panel: kill and forget the process,
\* forget the panel
onDidDisposeListener(handle, procs) ==
  [serverProcess |-> 0, previewPanel |-> 0,
   processes |-> IF handle # 0 THEN kill(procs, handle) ELSE procs]

\* vscode.window.createWebviewPanel(...)
createWebviewPanel(ps) == Append(ps, [disposed |-> FALSE, html |-> FALSE])

\* panel.dispose() and the user closing the panel
disposePanel(ps, q) == [ps EXCEPT ![q].disposed = TRUE]

\* previewPanel.webview.html = getWebviewContent(ALLAY_PORT)
loadHtml(ps, q) == [ps EXCEPT ![q].html = TRUE]

\* what a host event found when it began
Found(name) ==
  [name |-> name, serverProcess |-> serverProcess, previewPanel |-> previewPanel,
   spawned |-> Len(processes), created |-> Len(panels)]

\* the module state when activate() returns, in a window with the given
\* numbers of workspace folders
HostInit(folders) ==
  /\ serverProcess = 0
  /\ previewPanel = 0
  /\ processes = <<>>
  /\ panels = <<>>
  /\ workspaceFolders \in folders
  /\ activated = TRUE
  /\ hostEvent = [name |-> "activate", serverProcess |-> 0, previewPanel |-> 0,
                  spawned |-> 0, created |-> 0]

(* --------------------------- the requests ----------------------------- *)

VARIABLES
  pc,         \* where each request is: idle, awaiting a lookup, or done
  document,   \* the document argument of each request (its lines)
  position,   \* the position argument of each request
  authored,   \* what the author wrote in that document
  allItems,   \* the allItems container of each call frame
  locals,     \* the other locals of each request
  calls,      \* the external lookups each request has issued, in order
  responses,  \* what the external lookups answered
  result,     \* what each request's promise settled with
  overlapped, \* whether the request ran while another one was suspended
  accepted    \* the block snippet whose acceptance asked for this request

requestVars == <<pc, document, position, authored, allItems, locals, calls, responses,
                 result, overlapped, accepted>>

vars == <<requestVars, hostVars>>

\* the request was asked for by the user typing, not by an accepted snippet
Typed == [followUp |-> FALSE, label |-> <<>>, linePrefix |-> <<>>]

Requests == 1..MaxRequests

\* a faulty variant of Frame: allItems hoisted to a field of the provider
FrameShared(r) == 1

\* allItems is a local of the call (line 16): each request has its own
Frame(r) == r

Pending == [kind |-> "pending", items |-> <<>>]
Undefined == [kind |-> "undefined", items |-> <<>>]
Rejected == [kind |-> "error", items |-> <<>>]
ItemList(items) == [kind |-> "items", items |-> items]

\* return allItems.length > 0 ? allItems : undefined
ReturnAccumulated(items) == IF Len(items) > 0 THEN ItemList(items) ELSE Undefined

NoLocals ==
  [linePrefix |-> <<>>, branch |-> "", blockCompletion |-> <<>>, parent |-> <<>>,
   commandExpressions |-> <<>>, outputExpressions |-> <<>>,
   fieldItems |-> <<>>, pathItems |-> <<>>, shortcodeItems |-> <<>>]

NoResponses ==
  [templates |-> <<>>, shortcodes |-> <<>>, configFound |-> FALSE,
   configFindFailed |-> FALSE, configRead |-> FALSE, config |-> <<>>]

\* a faulty variant of commandItems that pushes the expressions first
commandItemsExpressionsFirst(linePrefix, doc) ==
  IF commandBlockMatch(linePrefix)
    THEN getCommonExpressions(doc) \o getControlKeywords ELSE <<>>

\* steps 3 and 4 of provideCompletionItems: what the command and the
\* expression block push onto allItems
commandItems(linePrefix, doc) ==
  IF commandBlockMatch(linePrefix)
    THEN getControlKeywords \o getCommonExpressions(doc) ELSE <<>>

outputItems(linePrefix, doc) ==
  IF expressionBlockMatch(linePrefix)
    THEN getOutputKeywords \o getCommonExpressions(doc) ELSE <<>>

\* what a request holds when it suspends or returns: the program counter it
\* stops at, its allItems, its other locals, the lookups issued, the result
Held(at, items, issued, settled, branch, linePrefix, block, parent, fields, command, output) ==
  [pc |-> at, allItems |-> items, calls |-> issued, result |-> settled,
   locals |-> [NoLocals EXCEPT
     !.linePrefix = linePrefix, !.branch = branch, !.blockCompletion = block,
     !.parent = parent, !.fieldItems = fields,
     !.commandExpressions = SubSeq(command, Len(getControlKeywords) + 1, Len(command)),
     !.outputExpressions = SubSeq(output, Len(getOutputKeywords) + 1, Len(output))]]

\* lines 28-31: the path completion awaits the template lookup
pathStep(linePrefix, block) ==
  Held("awaitTemplates", block, <<"findFiles:templates">>, Pending, "path",
       linePrefix, block, <<>>, <<>>, <<>>, <<>>)

\* lines 36-39 with getFieldCompletions (lines 314-333) up to its own await
dotStep(linePrefix, block, parent, branch, doc) ==
  IF branch = "config" THEN
    Held("awaitConfigFind", block, <<"findFiles:allay.toml">>, Pending, branch,
         linePrefix, block, parent, <<>>, <<>>, <<>>)
  ELSE IF branch = "site" THEN
    Held("done", block, <<>>, ItemList(block \o SiteFields), branch,
         linePrefix, block, parent, SiteFields, <<>>, <<>>)
  ELSE IF branch = "page" THEN
    Held("done", block, <<>>, ItemList(block \o getMarkdownPageKeys(doc)), branch,
         linePrefix, block, parent, getMarkdownPageKeys(doc), <<>>, <<>>)
  ELSE
    Held("done", block, <<>>, ItemList(block \o <<>>), branch,
         linePrefix, block, parent, <<>>, <<>>, <<>>)

\* lines 45-67 up to the shortcode lookup
accumulateStep(linePrefix, block, command, output) ==
  IF shortcodeMatch(linePrefix) THEN
    Held("awaitShortcodes", block \o command \o output, <<"findFiles:shortcodes">>,
         Pending, "accumulate", linePrefix, block, <<>>, <<>>, command, output)
  ELSE
    Held("done", block \o command \o output, <<>>,
         ReturnAccumulated(block \o command \o output),
         "accumulate", linePrefix, block, <<>>, <<>>, command, output)

\* a faulty variant of route that tries the dot access before the path
routeDotFirst(linePrefix, block, doc) ==
  IF openBlockMatch(linePrefix) /\ dotMatch(linePrefix) THEN
    dotStep(linePrefix, block, dotMatchGroup1(linePrefix),
            fieldBranch(dotMatchGroup1(linePrefix)), doc)
  ELSE IF includeMatch(linePrefix) THEN pathStep(linePrefix, block)
  ELSE accumulateStep(linePrefix, block, commandItems(linePrefix, doc),
                      outputItems(linePrefix, doc))

\* lines 26-57: the priority of the contexts
route(linePrefix, block, doc) ==
  IF includeMatch(linePrefix) THEN pathStep(linePrefix, block)
  ELSE IF openBlockMatch(linePrefix) /\ dotMatch(linePrefix) THEN
    dotStep(linePrefix, block, dotMatchGroup1(linePrefix),
            fieldBranch(dotMatchGroup1(linePrefix)), doc)
  ELSE accumulateStep(linePrefix, block, commandItems(linePrefix, doc),
                      outputItems(linePrefix, doc))

\* lines 13-24: the line prefix and the block snippets; translate(0, -1) of
\* getBlockCompletions throws at column 0 and the call rejects
classify(linePrefix, doc, pos) ==
  IF TranslateThrows(pos) THEN
    Held("done", <<>>, <<>>, Rejected, "throw", linePrefix, <<>>, <<>>, <<>>, <<>>, <<>>)
  ELSE route(linePrefix, getBlockCompletions(linePrefix, pos, doc), doc)

\* provideCompletionItems up to its first external lookup
SyncPart(doc, pos) == classify(SubSeq(LineAt(doc, pos), 1, pos.character), doc, pos)

\* no request issued yet
RequestInit ==
  /\ pc = [r \in Requests |-> "idle"]
  /\ document = [r \in Requests |-> <<>>]
  /\ position = [r \in Requests |-> [line |-> 0, character |-> 0]]
  /\ authored = [r \in Requests |-> [frontMatter |-> FALSE, keys |-> <<>>, binds |-> <<>>]]
  /\ allItems = [r \in Requests |-> <<>>]
  /\ locals = [r \in Requests |-> NoLocals]
  /\ calls = [r \in Requests |-> <<>>]
  /\ responses = [r \in Requests |-> NoResponses]
  /\ result = [r \in Requests |-> Pending]
  /\ overlapped = [r \in Requests |-> FALSE]
  /\ accepted = [r \in Requests |-> Typed]

\* the provider serves a window with a workspace folder open
Init == RequestInit /\ HostInit({1})

\* request r is suspended at an external lookup
Awaiting(r) == pc[r] \notin {"idle", "done"}

\* request r stops with s held: at an await, or settled
suspend(r, in, s, why) ==
  /\ pc' = [pc EXCEPT ![r] = s.pc]
  /\ document' = [document EXCEPT ![r] = in.document]
  /\ position' = [position EXCEPT ![r] = in.position]
  /\ authored' = [authored EXCEPT ![r] = in.authored]
  /\ allItems' = [allItems EXCEPT ![Frame(r)] = s.allItems]
  /\ locals' = [locals EXCEPT ![r] = s.locals]
  /\ calls' = [calls EXCEPT ![r] = s.calls]
  /\ result' = [result EXCEPT ![r] = s.result]
  /\ overlapped' = [q \in Requests |->
                      IF q = r THEN \E o \in Requests \ {r} : Awaiting(o)
                      ELSE overlapped[q] \/ Awaiting(q)]
  /\ responses' = [responses EXCEPT ![r] = NoResponses]
  /\ accepted' = [accepted EXCEPT ![r] = why]
  /\ UNCHANGED hostVars

\* the host calls provideCompletionItems(document, position, ...): the call
\* runs to its first external lookup, or to its return
provideCompletionItems(r, inputs) ==
  /\ pc[r] = "idle"
  /\ \E in \in inputs : suspend(r, in, SyncPart(in.document, in.position), Typed)

\* the user accepts a block snippet of the returned list: the editor inserts
\* it and runs its command (line 93), editor.action.triggerSuggest, which
\* calls provideCompletionItems at the new cursor position
acceptBlockSnippet(r) ==
  /\ pc[r] = "done"
  /\ result[r].kind = "items"
  /\ \E i \in 1..Len(result[r].items) :
       LET item == result[r].items[i] IN
       /\ item.insertText # <<>>
       /\ item.range # <<>>
       /\ item.command = RetriggerCommand
       /\ LET after == AcceptSnippet(document[r], position[r], item) IN
          suspend(r, [document |-> after.document, position |-> after.position,
                      authored |-> authored[r]],
                  SyncPart(after.document, after.position),
                  [followUp |-> TRUE, label |-> item.label,
                   linePrefix |-> locals[r].linePrefix])

\* findFiles('**/templates/*.{html,md}') answers: lines 29-30
resumeTemplates(r, listings) ==
  /\ pc[r] = "awaitTemplates"
  /\ \E files \in listings :
       LET pathItems == getTemplateFileCompletions(files) IN
       /\ responses' = [responses EXCEPT ![r].templates = files]
       /\ locals' = [locals EXCEPT ![r].pathItems = pathItems]
       /\ result' = [result EXCEPT ![r] = ItemList(allItems[Frame(r)] \o pathItems)]
  /\ pc' = [pc EXCEPT ![r] = "done"]
  /\ UNCHANGED <<document, position, authored, allItems, calls, overlapped, accepted, hostVars>>

\* findFiles('allay.toml', null, 1) answers: lines 340-342, then 345 or 38.
\* The call stands outside the try block of getAllayConfigKeys: when the
\* enumeration fails, the rejection passes through getFieldCompletions (line
\* 327) and provideCompletionItems (line 37) to the host.
resumeConfigFind(r) ==
  /\ pc[r] = "awaitConfigFind"
  /\ \E outcome \in {"found", "none", "rejects"} :
       /\ responses' = [responses EXCEPT ![r].configFound = (outcome = "found"),
                                         ![r].configFindFailed = (outcome = "rejects")]
       /\ IF outcome = "found"
            THEN /\ pc' = [pc EXCEPT ![r] = "awaitConfigOpen"]
                 /\ calls' = [calls EXCEPT ![r] = Append(@, "openTextDocument:allay.toml")]
                 /\ UNCHANGED result
            ELSE /\ pc' = [pc EXCEPT ![r] = "done"]
                 /\ result' = [result EXCEPT ![r] =
                                 IF outcome = "rejects" THEN Rejected
                                 ELSE ItemList(allItems[Frame(r)] \o <<>>)]
                 /\ UNCHANGED calls
  /\ UNCHANGED <<document, position, authored, allItems, locals, overlapped, accepted, hostVars>>

\* openTextDocument(files[0]) answers, with the text or by throwing: lines 344-365, 38
resumeConfigOpen(r, configs) ==
  /\ pc[r] = "awaitConfigOpen"
  /\ \E read \in BOOLEAN : \E config \in (IF read THEN configs ELSE {<<>>}) :
       LET fieldItems == IF read THEN parseAllayConfig(ConfigText(config)) ELSE <<>> IN
       /\ responses' = [responses EXCEPT ![r].configRead = read, ![r].config = config]
       /\ locals' = [locals EXCEPT ![r].fieldItems = fieldItems]
       /\ result' = [result EXCEPT ![r] = ItemList(allItems[Frame(r)] \o fieldItems)]
  /\ pc' = [pc EXCEPT ![r] = "done"]
  /\ UNCHANGED <<document, position, authored, allItems, calls, overlapped, accepted, hostVars>>

\* findFiles('**/shortcodes/*.{html,md}') answers: lines 61-67
resumeShortcodes(r, listings) ==
  /\ pc[r] = "awaitShortcodes"
  /\ \E files \in listings :
       LET shortcodeItems == getShortcodeCompletions(files)
           items == allItems[Frame(r)] \o shortcodeItems
       IN
       /\ responses' = [responses EXCEPT ![r].shortcodes = files]
       /\ locals' = [locals EXCEPT ![r].shortcodeItems = shortcodeItems]
       /\ allItems' = [allItems EXCEPT ![Frame(r)] = items]
       /\ result' = [result EXCEPT ![r] = ReturnAccumulated(items)]
  /\ pc' = [pc EXCEPT ![r] = "done"]
  /\ UNCHANGED <<document, position, authored, calls, overlapped, accepted, hostVars>>

\* one request at a time, over every input
Next ==
  \/ provideCompletionItems(1, Inputs)
  \/ acceptBlockSnippet(1)
  \/ resumeTemplates(1, TemplateListings)
  \/ resumeConfigFind(1)
  \/ resumeConfigOpen(1, ConfigFiles)
  \/ resumeShortcodes(1, ShortcodeListings)

Spec == Init /\ [][Next]_vars

\* requests that overlap: a new one starts while others await their lookups
NextOverlap ==
  \E r \in Requests :
    \/ provideCompletionItems(r, OverlapInputs)
    \/ resumeTemplates(r, OverlapListings(TemplateFiles))
    \/ resumeConfigFind(r)
    \/ resumeConfigOpen(r, OverlapConfigFiles)
    \/ resumeShortcodes(r, OverlapListings(ShortcodeFiles))

SpecOverlap == Init /\ [][NextOverlap]_vars


(* ------------------------- the host events ---------------------------- *)

\* the allay.preview command
previewCommand ==
  /\ activated
  /\ hostEvent' = Found("preview")
  /\ IF workspaceFolders = 0 THEN
       UNCHANGED <<serverProcess, previewPanel, processes, panels>>
     ELSE IF previewPanel # 0 THEN
       \* previewPanel.reveal(vscode.ViewColumn.Two); return
       UNCHANGED <<serverProcess, previewPanel, processes, panels>>
     ELSE
       /\ Len(panels) < MaxPanels
       /\ Len(processes) < MaxSpawns
       /\ LET started == startService(serverProcess, processes) IN
          /\ previewPanel' = Len(panels) + 1
          /\ panels' = loadHtml(createWebviewPanel(panels), Len(panels) + 1)
          /\ serverProcess' = started.serverProcess
          /\ processes' = started.processes
  /\ UNCHANGED <<workspaceFolders, activated, requestVars>>

\* the allay.restartService command
restartCommand ==
  /\ activated
  /\ hostEvent' = Found("restart")
  /\ IF serverProcess = 0 THEN
       UNCHANGED <<serverProcess, previewPanel, processes, panels>>
     ELSE IF workspaceFolders = 0 THEN
       /\ processes' = kill(processes, serverProcess)
       /\ UNCHANGED <<serverProcess, previewPanel, panels>>
     ELSE
       /\ Len(processes) < MaxSpawns
       /\ LET started == startService(serverProcess, kill(processes, serverProcess)) IN
          /\ serverProcess' = started.serverProcess
          /\ processes' = started.processes
       /\ panels' = IF previewPanel # 0 THEN loadHtml(panels, previewPanel) ELSE panels
       /\ UNCHANGED previewPanel
  /\ UNCHANGED <<workspaceFolders, activated, requestVars>>

\* the user closes the preview panel: its onDidDispose listener runs
onDidDispose ==
  /\ activated
  /\ previewPanel # 0
  /\ hostEvent' = Found("dispose")
  /\ panels' = disposePanel(panels, previewPanel)
  /\ LET after == onDidDisposeListener(serverProcess, processes) IN
     /\ serverProcess' = after.serverProcess
     /\ previewPanel' = after.previewPanel
     /\ processes' = after.processes
  /\ UNCHANGED <<workspaceFolders, activated, requestVars>>

\* deactivate(): kill the held process, dispose the held panel, whose
\* onDidDispose listener then runs
deactivate ==
  /\ activated
  /\ hostEvent' = Found("deactivate")
  /\ activated' = FALSE
  /\ LET stopped == IF serverProcess # 0 THEN kill(processes, serverProcess) ELSE processes IN
     IF previewPanel # 0 THEN
       LET after == onDidDisposeListener(serverProcess, stopped) IN
       /\ panels' = disposePanel(panels, previewPanel)
       /\ serverProcess' = after.serverProcess
       /\ previewPanel' = after.previewPanel
       /\ processes' = after.processes
     ELSE
       /\ processes' = stopped
       /\ UNCHANGED <<serverProcess, previewPanel, panels>>
  /\ UNCHANGED <<workspaceFolders, requestVars>>

NextHost ==
  \/ previewCommand
  \/ restartCommand
  \/ onDidDispose
  \/ deactivate

\* the extension is activated in a window with or without a workspace folder
InitHost == RequestInit /\ HostInit(0..1)

SpecHost == InitHost /\ [][NextHost]_vars
(* ------------------------------ claims -------------------------------- *)

Done(r) == pc[r] = "done"
Started(r) == pc[r] # "idle"

\* the elements of s in first-seen order, each once
RECURSIVE DistinctInOrder(_)
DistinctInOrder(s) ==
  IF s = <<>> THEN <<>>
  ELSE LET front == DistinctInOrder(SubSeq(s, 1, Len(s) - 1))
       IN  IF s[Len(s)] \in Range(front) THEN front ELSE Append(front, s[Len(s)])

NoRepeat(s) == \A i, j \in 1..Len(s) : i # j => s[i] # s[j]

Count(s, c) == Cardinality({i \in 1..Len(s) : s[i] = c})

\* a block snippet, as opposed to a shortcode candidate of the same kind
IsBlockSnippet(item) == item.kind = "Snippet" /\ item.range # <<>>

EndsInOpener(linePrefix) ==
  \E opener \in {<<"{","-">>, <<"{",":">>, <<"{","<">>} : EndsWith(linePrefix, opener)

\* C1: every request that returns, returns NoOpinion (undefined) or a
\* non-empty candidate list, never an empty list.
C1_NoOpinionOrNonEmpty ==
  \A r \in Requests :
    (Done(r) /\ result[r].kind # "error") =>
      \/ result[r].kind = "undefined"
      \/ result[r].kind = "items" /\ result[r].items # <<>>

\* the line prefixes of the inputs that are an include/extends path inside a
\* command block with no closing brace after its opener
PathInCommandPrefixes ==
  {l.prefix : l \in {k \in PathLines : \A i \in 1..Len(k.prefix) : k.prefix[i] # "}"}}

\* C2 as stated: when PathCompletion and CommandBody both match, every
\* candidate of the result is a template-file (File) candidate.
C2_OnlyPathCandidates ==
  \A r \in Requests :
    (Done(r) /\ locals[r].linePrefix \in PathInCommandPrefixes) =>
      /\ result[r].kind = "items"
      /\ \A i \in 1..Len(result[r].items) : result[r].items[i].kind = "File"

\* C2 as amended: when PathCompletion and CommandBody both match, the result
\* is the block snippets (present only when the typed path text ends in a
\* block opener) followed by one File candidate per file of the template
\* lookup; it holds no keyword, common-expression or shortcode candidate.
C2_SnippetsThenPathCandidates ==
  \A r \in Requests :
    (Done(r) /\ locals[r].linePrefix \in PathInCommandPrefixes) =>
      /\ result[r].kind = "items"
      /\ LET items == result[r].items
             files == responses[r].templates
             k     == Len(items) - Len(files)
         IN  /\ k >= 0
             /\ k > 0 => EndsInOpener(locals[r].linePrefix)
             /\ \A i \in 1..Len(items) :
                  IF i <= k THEN IsBlockSnippet(items[i])
                  ELSE /\ items[i].kind = "File"
                       /\ items[i].label = files[i - k].name

C2_Witness ==
  \E r \in Requests :
    /\ Done(r)
    /\ locals[r].linePrefix \in PathInCommandPrefixes
    /\ EndsInOpener(locals[r].linePrefix)
    /\ Len(responses[r].templates) >= 1
    /\ Len(result[r].items) = 1 + Len(responses[r].templates)

\* the user-variable candidates getCommonExpressions must append for the
\* names the author bound, in first-seen order
ExpectedExpressions(binds) ==
  Labels(StaticExpressions) \o DistinctInOrder(binds)

IsCommonExpressions(items, binds) ==
  /\ Len(StaticExpressions) = 12
  /\ Labels(items) = ExpectedExpressions(binds)
  /\ SubSeq(items, 1, 12) = StaticExpressions
  /\ \A i \in 13..Len(items) :
       items[i].kind = "Variable" /\ items[i].detail = "User Defined Variable"
  /\ Len(items) = 12 + Cardinality(Range(binds))

\* C3: getCommonExpressions returns the 12 static entries followed by exactly
\* one user-variable candidate per distinct $-name bound by a set or for
\* statement of the document, in first-seen order, however often rebound.
C3_OneCandidatePerBoundName ==
  \A r \in Requests :
    /\ locals[r].commandExpressions # <<>> =>
         IsCommonExpressions(locals[r].commandExpressions, authored[r].binds)
    /\ locals[r].outputExpressions # <<>> =>
         IsCommonExpressions(locals[r].outputExpressions, authored[r].binds)

C3_Witness ==
  \E r \in Requests :
    /\ Len(locals[r].commandExpressions) = 14
    /\ Len(authored[r].binds) >= 3
    /\ ~NoRepeat(authored[r].binds)

\* the custom keys of a front-matter: its keys that are no standard field
CustomKeys(keys) == SelectSeq(keys, LAMBDA k : k \notin Range(StandardFields))

\* C4: for a DotAccess request whose root is empty or ends in page, the
\* candidates are the 8 standard fields followed by every custom key of the
\* leading front-matter block, and no label occurs twice.
C4_PageKeysWithoutDuplicates ==
  \A r \in Requests :
    (Done(r) /\ locals[r].branch = "page") =>
      /\ Labels(result[r].items) =
           StandardFields \o DistinctInOrder(CustomKeys(authored[r].keys))
      /\ NoRepeat(Labels(result[r].items))

\* the keys of the pairs of the first section of a config file whose header
\* is Param in any letter case, the section ending at the next header
RECURSIVE ParamKeys(_, _)
ParamKeys(config, inside) ==
  IF config = <<>> THEN <<>>
  ELSE LET line == Head(config) IN
       IF line.kind = "header"
         THEN IF inside THEN <<>>
              ELSE ParamKeys(Tail(config), LowerCase(line.name) = <<"p","a","r","a","m">>)
         ELSE (IF inside THEN <<line.name>> ELSE <<>>) \o ParamKeys(Tail(config), inside)

\* C5: for root site.param the config-key scanner returns one Field candidate
\* per key = value line of the [Param] section, in file order, whatever the
\* values are, and none when the file is absent or has no such section.
C5_EveryParamKey ==
  \A r \in Requests :
    (Done(r) /\ locals[r].branch = "config" /\ ~responses[r].configFindFailed) =>
      /\ result[r].kind = "items"
      /\ \A i \in 1..Len(result[r].items) : result[r].items[i].kind = "Field"
      /\ Labels(result[r].items) =
           IF responses[r].configFound /\ responses[r].configRead
             THEN ParamKeys(responses[r].config, FALSE) ELSE <<>>

\* the number of plain characters in front of the final tab stop $0
StopOffset(t) ==
  LET at == CHOOSE i \in 1..(Len(t) - 1) : t[i] = "$" /\ t[i + 1] = "0"
  IN  Len(PlainText(SubSeq(t, 1, at - 1)))

\* what accepting a block snippet leaves from the typed { to the end of the insertion
BlockAfter(r, item) ==
  SubSeq(Replaced(LineAt(document[r], position[r]), item.range, PlainText(item.insertText)),
         position[r].character - 1,
         position[r].character - 1 + Len(PlainText(item.insertText)))

Closer(c) == IF c = "<" THEN ">" ELSE c

\* the span of a block snippet: from one column before the cursor to the
\* cursor, or one column after it exactly when a } follows the cursor
SpanAsStated(r, item) ==
  LET c    == position[r].character
      line == LineAt(document[r], position[r])
  IN  item.range = <<c - 1, IF c + 1 <= Len(line) /\ line[c + 1] = "}" THEN c + 1 ELSE c>>

\* the typed { opens the text, a } with the closer of the opener's kind ends it
OpensAndCloses(block) ==
  /\ Len(block) >= 4
  /\ block[1] = "{"
  /\ block[2] \in {"-", ":", "<"}
  /\ block[Len(block)] = "}"
  /\ block[Len(block) - 1] = Closer(block[2])

\* every { is closed by a } before the next one opens
BracesAlternate(block) ==
  /\ \A n \in 1..Len(block) :
       Count(SubSeq(block, 1, n), "{") - Count(SubSeq(block, 1, n), "}") \in {0, 1}
  /\ Count(block, "{") = Count(block, "}")

\* C6 as stated: each block snippet's replace span is the typed opener
\* character (and an auto-inserted } after the cursor), and accepting it leaves
\* a closed block whose single { is the typed one, with exactly one }.
C6_SingleClosedBlock ==
  \A r \in Requests :
    (Started(r) /\ EndsInOpener(locals[r].linePrefix)) =>
      /\ locals[r].blockCompletion # <<>>
      /\ \A i \in 1..Len(locals[r].blockCompletion) :
           LET item == locals[r].blockCompletion[i] IN
           /\ SpanAsStated(r, item)
           /\ OpensAndCloses(BlockAfter(r, item))
           /\ Count(BlockAfter(r, item), "{") = 1
           /\ Count(BlockAfter(r, item), "}") = 1

PairLabel == <<"{","<"," ","p","a","i","r"," ",">","}",".",".",".","{","<","/"," ","p","a","i","r"," ",">","}">>

\* C6 as amended: the span is as stated, and accepting a snippet leaves closed
\* blocks only, the first opened by the typed {: one block (one {, one }) for
\* every snippet but the paired shortcode snippet, which leaves two (its
\* opening and its closing tag); the command and expression snippets put the
\* cursor between the opener and the closer.
C6_ClosedBlocks ==
  \A r \in Requests :
    (Started(r) /\ EndsInOpener(locals[r].linePrefix)) =>
      /\ locals[r].blockCompletion # <<>>
      /\ \A i \in 1..Len(locals[r].blockCompletion) :
           LET item  == locals[r].blockCompletion[i]
               block == BlockAfter(r, item)
           IN  /\ IsBlockSnippet(item)
               /\ SpanAsStated(r, item)
               /\ OpensAndCloses(block)
               /\ BracesAlternate(block)
               /\ Count(block, "}") = IF item.label = PairLabel THEN 2 ELSE 1
               /\ block[2] \in {"-", ":"} =>
                    /\ Len(locals[r].blockCompletion) = 1
                    /\ StopOffset(item.insertText) \in 2..(Len(block) - 4)

C6_Witness ==
  \E r \in Requests :
    /\ Started(r)
    /\ EndsWith(locals[r].linePrefix, <<"{","<">>)
    /\ NextChar(document[r], position[r]) = <<"}">>
    /\ Len(locals[r].blockCompletion) = 3
    /\ locals[r].blockCompletion[3].range[2] = position[r].character + 1

\* an opener {- or {: of the prefix has no } after it
OpenOnLine(linePrefix) ==
  \E i \in 1..(Len(linePrefix) - 1) :
    /\ linePrefix[i] = "{"
    /\ linePrefix[i + 1] \in {"-", ":"}
    /\ \A x \in (i + 2)..Len(linePrefix) : linePrefix[x] # "}"

\* the root path of a prefix that ends in a dot: the longest run of
\* identifier and dot characters in front of that dot
DotRoot(linePrefix) ==
  LET n      == Len(linePrefix)
      starts == {i \in 1..n : \A k \in i..(n - 1) : linePrefix[k] \in WordChars \cup {"."}}
  IN  SubSeq(linePrefix, MinOf(starts), n - 1)

PathPrefixes == {l.prefix : l \in PathLines}

\* the request is a DotAccess request with the given root: its prefix is no
\* include/extends path, ends in a dot inside a block open on the line
DotAccessWithRoot(r, root) ==
  /\ Started(r)
  /\ locals[r].linePrefix \notin PathPrefixes
  /\ Len(locals[r].linePrefix) >= 1
  /\ locals[r].linePrefix[Len(locals[r].linePrefix)] = "."
  /\ OpenOnLine(locals[r].linePrefix)
  /\ DotRoot(locals[r].linePrefix) = root

C8_OneCandidatePerTemplate ==
  \A r \in Requests :
    (Done(r) /\ locals[r].linePrefix \in PathPrefixes) =>
      LET files == responses[r].templates
          items == locals[r].pathItems
      IN  /\ Len(items) = Len(files)
          /\ \A i \in 1..Len(files) :
               /\ items[i].kind = "File"
               /\ items[i].label = files[i].name
               /\ items[i].documentation =
                    <<"L","o","c","a","t","e","d"," ","a","t",":"," ",Backtick>> \o files[i].dir \o <<"/">> \o files[i].name
                      \o <<".">> \o files[i].ext \o <<Backtick>>
          /\ result[r] = ItemList(locals[r].blockCompletion \o items)

C8_Witness ==
  \E r \in Requests :
    /\ Done(r)
    /\ locals[r].linePrefix = <<"{","-"," ","i","n","c","l","u","d","e"," ","\"","t","e">>
    /\ Len(locals[r].pathItems) = 2
    /\ locals[r].pathItems[1].label = locals[r].pathItems[2].label

\* C9: the shortcode lookup returns one candidate per distinct base name of
\* the enumerated files, in first-seen order; no label occurs twice.
C9_OneCandidatePerShortcodeName ==
  \A r \in Requests :
    (Done(r) /\ calls[r] = <<"findFiles:shortcodes">>) =>
      LET files == responses[r].shortcodes
          items == locals[r].shortcodeItems
      IN  /\ Labels(items) = DistinctInOrder([i \in 1..Len(files) |-> files[i].name])
          /\ NoRepeat(Labels(items))
          /\ \A i \in 1..Len(items) : items[i].kind = "Snippet"

C9_Witness ==
  \E r \in Requests :
    /\ Done(r)
    /\ Len(responses[r].shortcodes) = 2
    /\ Len(locals[r].shortcodeItems) = 1

\* what a request returns when it runs alone on a document, a position and
\* the responses of the external lookups
Solo(doc, pos, resp) ==
  LET s == SyncPart(doc, pos) IN
  IF s.pc = "awaitTemplates" THEN
    ItemList(s.allItems \o getTemplateFileCompletions(resp.templates))
  ELSE IF s.pc = "awaitConfigFind" /\ resp.configFindFailed THEN Rejected
  ELSE IF s.pc = "awaitConfigFind" THEN
    ItemList(s.allItems \o
             (IF resp.configFound /\ resp.configRead
                THEN parseAllayConfig(ConfigText(resp.config)) ELSE <<>>))
  ELSE IF s.pc = "awaitShortcodes" THEN
    ReturnAccumulated(s.allItems \o getShortcodeCompletions(resp.shortcodes))
  ELSE s.result

\* C10: requests share no state: however overlapping requests interleave at
\* their suspension points, each returns what it returns running alone on its
\* document and lookup responses, so equal inputs give equal results.
C10_RequestsIndependent ==
  /\ \A r \in Requests :
       Done(r) => result[r] = Solo(document[r], position[r], responses[r])
  /\ \A r, q \in Requests :
       (/\ Done(r) /\ Done(q)
        /\ document[r] = document[q] /\ position[r] = position[q]
        /\ responses[r] = responses[q]) => result[r] = result[q]

C10_Witness ==
  \E r, q \in Requests :
    /\ r # q
    /\ Done(r) /\ Done(q)
    /\ overlapped[r] /\ overlapped[q]
    /\ calls[r] = <<"findFiles:shortcodes">>
    /\ Len(result[r].items) = 4
    /\ calls[q] = <<"findFiles:templates">>


\* the config lookup of the request failed: the enumeration that locates
\* allay.toml failed, or the file was located and opening it failed
ConfigLookupFailed(r) ==
  \/ responses[r].configFindFailed
  \/ responses[r].configFound /\ ~responses[r].configRead

\* C11: a failure while locating, opening or parsing the config file of a
\* site.param request is never surfaced as an error of the request: the
\* scanner contributes nothing and the request returns the candidates
\* gathered so far.
C11_ConfigFailureSwallowed ==
  \A r \in Requests :
    (Done(r) /\ locals[r].branch = "config" /\ ConfigLookupFailed(r)) =>
      /\ result[r].kind # "error"
      /\ result[r] = ItemList(locals[r].blockCompletion)

\* run occurs in items as a block of consecutive elements
ContainsRun(items, run) ==
  \E k \in 0..(Len(items) - Len(run)) : SubSeq(items, k + 1, k + Len(run)) = run

\* every block snippet the request produced carries the command that asks
\* the editor for suggestions again
CarriesRetrigger(r) ==
  \A i \in 1..Len(locals[r].blockCompletion) :
    locals[r].blockCompletion[i].command = "editor.action.triggerSuggest"

\* the character of the opener whose snippet was accepted before request r
AcceptedOpener(r) == accepted[r].linePrefix[Len(accepted[r].linePrefix)]

\* the request ran the body generator of a block of the given opener
BodyGeneratorFired(r, opener) ==
  IF opener = "-" THEN
    /\ result[r].kind = "items"
    /\ IsCommonExpressions(locals[r].commandExpressions, authored[r].binds)
    /\ ContainsRun(result[r].items, getControlKeywords \o locals[r].commandExpressions)
  ELSE IF opener = ":" THEN
    /\ result[r].kind = "items"
    /\ IsCommonExpressions(locals[r].outputExpressions, authored[r].binds)
    /\ ContainsRun(result[r].items, getOutputKeywords \o locals[r].outputExpressions)
  ELSE
    /\ calls[r] = <<"findFiles:shortcodes">>
    /\ Len(locals[r].shortcodeItems) =
         Cardinality({responses[r].shortcodes[i].name : i \in 1..Len(responses[r].shortcodes)})
    /\ result[r] = ReturnAccumulated(locals[r].shortcodeItems)

\* C12 as stated: every block snippet carries the re-request signal, and the
\* request that follows the acceptance of any block snippet runs the body
\* generator of the block just opened: keywords and common expressions after
\* the command and the expression snippet, the shortcode lookup after a
\* shortcode snippet.
C12_FollowUpRunsBodyGenerator ==
  \A r \in Requests :
    /\ CarriesRetrigger(r)
    /\ (Done(r) /\ accepted[r].followUp) => BodyGeneratorFired(r, AcceptedOpener(r))

\* C12 as amended: every block snippet carries the re-request signal; the
\* request that follows an acceptance runs the body generator of the block
\* just opened, unless the opener was typed inside the path text of an
\* include/extends statement: that follow-up request is a path completion and
\* returns the template-file candidates alone.
C12_FollowUpUnlessPath ==
  \A r \in Requests :
    /\ CarriesRetrigger(r)
    /\ (Done(r) /\ accepted[r].followUp) =>
         IF accepted[r].linePrefix \in PathPrefixes
           THEN /\ calls[r] = <<"findFiles:templates">>
                /\ result[r].kind = "items"
                /\ Len(result[r].items) = Len(responses[r].templates)
                /\ \A i \in 1..Len(result[r].items) : result[r].items[i].kind = "File"
           ELSE BodyGeneratorFired(r, AcceptedOpener(r))

C12_Witness ==
  \E r \in Requests :
    /\ Done(r)
    /\ accepted[r].followUp
    /\ accepted[r].label = PairLabel
    /\ position[r].character = 3
    /\ Len(document[r]) = 3
    /\ Len(locals[r].shortcodeItems) = 2

\* the prefix holds the opener {c that no closer c} follows later in the prefix
OpenBlock(linePrefix, c) ==
  \E i \in 1..(Len(linePrefix) - 1) :
    /\ linePrefix[i] = "{" /\ linePrefix[i + 1] = c
    /\ ~\E j \in (i + 2)..(Len(linePrefix) - 1) :
          linePrefix[j] = c /\ linePrefix[j + 1] = "}"

\* the request got as far as the body generators: neither a path completion
\* nor a dot access took it, and it did not fail
Accumulated(r) == Done(r) /\ locals[r].branch = "accumulate"

\* C13: the classifier reports CommandBody exactly when the prefix holds a {-
\* that no -} follows, and ExpressionBody exactly when it holds a {: that no :}
\* follows; a lone } or the closer of the other kind does not close a block.
C13_ClosedByMatchingCloser ==
  \A r \in Requests :
    Accumulated(r) =>
      /\ (locals[r].commandExpressions # <<>>) <=> OpenBlock(locals[r].linePrefix, "-")
      /\ (locals[r].outputExpressions # <<>>) <=> OpenBlock(locals[r].linePrefix, ":")

\* the prefix holds the given text
Holds(linePrefix, text) ==
  \E i \in 0..(Len(linePrefix) - Len(text)) : SubSeq(linePrefix, i + 1, i + Len(text)) = text

\* the prefix holds a shortcode opener with no > and no } after it
OpenShortcode(linePrefix) ==
  \E i \in 1..(Len(linePrefix) - 1) :
    /\ linePrefix[i] = "{" /\ linePrefix[i + 1] = "<"
    /\ \A j \in (i + 2)..Len(linePrefix) : linePrefix[j] \notin {">", "}"}

\* the keyword candidates of a command block and of an expression block
IsControlKeywords(items) ==
  /\ Labels(items) = << <<"s","e","t">>, <<"f","o","r">>, <<"w","i","t","h">>, <<"i","f">>,
                        <<"e","l","s","e"," ","i","f">>, <<"e","l","s","e">>, <<"e","n","d">>,
                        <<"i","n","c","l","u","d","e">>, <<"e","x","t","e","n","d","s">>,
                        <<"g","e","t">>, <<"p","a","r","a","m">> >>
  /\ \A i \in 1..Len(items) : items[i].kind = "Keyword"

IsOutputKeywords(items) ==
  /\ Labels(items) = << <<"b","l","o","c","k">> >>
  /\ items[1].kind = "Keyword"

\* the four parts of an accumulated result, in order, with their lengths
\* taken from what the request produced
AccumulatedParts(r) ==
  LET nb == Len(locals[r].blockCompletion)
      nc == IF locals[r].commandExpressions # <<>>
              THEN 11 + Len(locals[r].commandExpressions) ELSE 0
      no == IF locals[r].outputExpressions # <<>>
              THEN 1 + Len(locals[r].outputExpressions) ELSE 0
      ns == Len(locals[r].shortcodeItems)
      items == result[r].items
  IN  [total |-> nb + nc + no + ns,
       block |-> SubSeq(items, 1, nb),
       command |-> SubSeq(items, nb + 1, nb + nc),
       output |-> SubSeq(items, nb + nc + 1, nb + nc + no),
       shortcodes |-> SubSeq(items, nb + nc + no + 1, nb + nc + no + ns)]

\* C14: when neither PathCompletion nor DotAccess fires, the result is, in
\* this order: the block snippets (if the prefix ends in an opener), control
\* keywords then common expressions (if CommandBody matched), the keyword
\* block then common expressions (if ExpressionBody matched), the shortcode
\* candidates (if ShortcodeContext matched); block snippets come first.
C14_AccumulationOrder ==
  \A r \in Requests :
    Accumulated(r) =>
      LET p == locals[r].linePrefix
          n == Len(result[r].items)
      IN
      /\ (locals[r].blockCompletion # <<>>) <=> EndsInOpener(p)
      /\ ~Holds(p, <<"}">>) =>
           /\ (locals[r].commandExpressions # <<>>) <=> Holds(p, <<"{","-">>)
           /\ (locals[r].outputExpressions # <<>>) <=> Holds(p, <<"{",":">>)
      /\ (calls[r] = <<"findFiles:shortcodes">>) <=> OpenShortcode(p)
      /\ calls[r] = <<>> => locals[r].shortcodeItems = <<>>
      /\ IF result[r].kind = "undefined" THEN AccumulatedParts(r).total = 0
         ELSE
           /\ result[r].kind = "items"
           /\ n = AccumulatedParts(r).total
           /\ n > 0
           /\ AccumulatedParts(r).block = locals[r].blockCompletion
           /\ \A i \in 1..n : IsBlockSnippet(result[r].items[i]) <=> i <= Len(locals[r].blockCompletion)
           /\ locals[r].commandExpressions # <<>> =>
                /\ IsControlKeywords(SubSeq(AccumulatedParts(r).command, 1, 11))
                /\ SubSeq(AccumulatedParts(r).command, 12, Len(AccumulatedParts(r).command))
                     = locals[r].commandExpressions
                /\ IsCommonExpressions(locals[r].commandExpressions, authored[r].binds)
           /\ locals[r].outputExpressions # <<>> =>
                /\ IsOutputKeywords(SubSeq(AccumulatedParts(r).output, 1, 1))
                /\ SubSeq(AccumulatedParts(r).output, 2, Len(AccumulatedParts(r).output))
                     = locals[r].outputExpressions
                /\ IsCommonExpressions(locals[r].outputExpressions, authored[r].binds)
           /\ AccumulatedParts(r).shortcodes = locals[r].shortcodeItems
           /\ \A i \in 1..Len(locals[r].shortcodeItems) :
                /\ locals[r].shortcodeItems[i].kind = "Snippet"
                /\ locals[r].shortcodeItems[i].range = <<>>

C14_Witness ==
  \E r \in Requests :
    /\ Accumulated(r)
    /\ locals[r].linePrefix = <<"{","-"," ","x"," ","{",":"," ">>
    /\ Len(authored[r].binds) >= 1
    /\ Len(result[r].items) = 11 + 1 + 2 * Len(locals[r].commandExpressions)

\* the prefix ends in a dot inside a block open on the line and is no
\* include/extends path: the dot access fires
DotAccessFires(linePrefix) ==
  /\ linePrefix \notin PathPrefixes
  /\ Len(linePrefix) >= 1
  /\ linePrefix[Len(linePrefix)] = "."
  /\ OpenOnLine(linePrefix)

\* every candidate of the result is a block snippet or of the given kind
OnlyKinds(r, kinds) ==
  \A i \in 1..Len(result[r].items) :
    IsBlockSnippet(result[r].items[i]) \/ result[r].items[i].kind \in kinds

Issued(r) == Range(calls[r])

\* C15: PathCompletion beats DotAccess and either beats accumulation. After a
\* path match the result holds no field, keyword, common-expression or
\* shortcode candidate and neither the config reader nor the shortcode
\* enumeration is invoked; else after a dot access it holds no template-file,
\* keyword, common-expression or shortcode candidate and neither enumeration
\* of templates or shortcodes is invoked. No request invokes both the
\* template and the shortcode enumeration.
C15_PriorityShortCircuit ==
  \A r \in Requests :
    Started(r) =>
      /\ locals[r].linePrefix \in PathPrefixes =>
           /\ locals[r].branch = "path"
           /\ Issued(r) = {"findFiles:templates"}
           /\ OnlyKinds(r, {"File"})
           /\ Done(r) => result[r] = ItemList(locals[r].blockCompletion \o locals[r].pathItems)
      /\ DotAccessFires(locals[r].linePrefix) =>
           /\ locals[r].branch \in {"site", "config", "page", "none"}
           /\ Issued(r) \subseteq {"findFiles:allay.toml", "openTextDocument:allay.toml"}
           /\ OnlyKinds(r, {"Field"})
           /\ locals[r].commandExpressions = <<>> /\ locals[r].outputExpressions = <<>>
      /\ ~({"findFiles:templates", "findFiles:shortcodes"} \subseteq Issued(r))
      /\ locals[r].branch = "accumulate" =>
           Issued(r) \subseteq {"findFiles:shortcodes"}

C15_Witness ==
  \E r \in Requests :
    /\ Done(r)
    /\ locals[r].linePrefix = <<"{","-"," ","i","n","c","l","u","d","e"," ","\"","s","i","t","e",".">>
    /\ Len(responses[r].templates) = 2
    /\ Len(result[r].items) = 2
    /\ result[r].items[1].kind = "File"

\* the request took the dot access: getFieldCompletions was called
DotAccessTaken(r) == locals[r].branch \in {"site", "config", "page", "none"}

EndsInDot(linePrefix) ==
  Len(linePrefix) >= 1 /\ linePrefix[Len(linePrefix)] = "."

\* C16: DotAccess fires only inside a command or expression block still open
\* on the line: for a prefix ending in a dot with no {- and no {: left open
\* (plain text, a closed block, only a shortcode opener) no field candidate is
\* returned and the config file is not read; and whenever DotAccess fires the
\* result holds no block snippet.
C16_DotAccessOnlyInOpenBlock ==
  \A r \in Requests :
    Started(r) =>
      /\ ( /\ EndsInDot(locals[r].linePrefix)
           /\ ~OpenBlock(locals[r].linePrefix, "-")
           /\ ~OpenBlock(locals[r].linePrefix, ":") ) =>
           /\ ~DotAccessTaken(r)
           /\ locals[r].fieldItems = <<>>
           /\ \A i \in 1..Len(result[r].items) : result[r].items[i].kind # "Field"
           /\ Issued(r) \cap {"findFiles:allay.toml", "openTextDocument:allay.toml"} = {}
      /\ DotAccessTaken(r) =>
           /\ EndsInDot(locals[r].linePrefix)
           /\ OpenBlock(locals[r].linePrefix, "-") \/ OpenBlock(locals[r].linePrefix, ":")
           /\ locals[r].blockCompletion = <<>>
           /\ \A i \in 1..Len(result[r].items) : ~IsBlockSnippet(result[r].items[i])

C16_Witness ==
  \E r \in Requests :
    /\ Done(r)
    /\ locals[r].linePrefix = <<"{","-"," ","a"," ","-","}"," ","s","i","t","e",".">>
    /\ result[r].kind = "undefined"
    /\ calls[r] = <<>>

\* C17: every request completes with NoOpinion or a list for every cursor
\* position of the line, column 0 included: the start column of the replace
\* span, cursor column minus 1, is never negative.
C17_CompletesAtEveryColumn ==
  \A r \in Requests :
    (Done(r) /\ ~responses[r].configFindFailed) =>
      /\ result[r].kind \in {"undefined", "items"}
      /\ position[r].character - 1 >= 0

\* a common-expression candidate: a builtin or a user variable
IsCommonExpression(item) == item.kind \in {"Variable", "Constant", "Function"}

\* C18: the result of one request never holds the same common-expression
\* candidate (same label, same kind) twice, also when the prefix leaves both
\* a command block and an expression block open.
C18_NoRepeatedCommonExpression ==
  \A r \in Requests :
    Done(r) =>
      \A i, j \in 1..Len(result[r].items) :
        ( /\ i # j
          /\ IsCommonExpression(result[r].items[i]) ) =>
          ~( /\ result[r].items[i].label = result[r].items[j].label
             /\ result[r].items[i].kind = result[r].items[j].kind )

\* the processes spawned by the extension on which kill() was not called,
\* and the panels created and not disposed
Running == {p \in 1..Len(processes) : ~processes[p].killed}
Existing == {q \in 1..Len(panels) : ~panels[q].disposed}

\* C19: after any sequence of open-preview, restart-service, panel-disposed
\* and deactivate, at most one spawned process has not been killed and at
\* most one panel exists: a spawn is preceded by the kill of the process held
\* before, open-preview with a panel present creates no panel and spawns no
\* process, and after the disposal of the panel both handles are null and
\* the process is killed.
C19_OneProcessOnePanel ==
  /\ Cardinality(Running) <= 1
  /\ Cardinality(Existing) <= 1
  /\ Running \subseteq {serverProcess}
  /\ Existing \subseteq {previewPanel}
  /\ (Len(processes) > hostEvent.spawned /\ hostEvent.serverProcess # 0) =>
       processes[hostEvent.serverProcess].killed
  /\ (hostEvent.name = "preview" /\ hostEvent.previewPanel # 0) =>
       /\ Len(panels) = hostEvent.created
       /\ Len(processes) = hostEvent.spawned
       /\ previewPanel = hostEvent.previewPanel
       /\ serverProcess = hostEvent.serverProcess
  /\ hostEvent.name = "dispose" =>
       /\ serverProcess = 0
       /\ previewPanel = 0
       /\ Running = {}
       /\ Existing = {}

C19_Witness ==
  /\ hostEvent.name = "dispose"
  /\ hostEvent.serverProcess = 4
  /\ hostEvent.previewPanel = 2
  /\ Len(processes) = 4
  /\ Running = {}

PairNames(config) ==
  {config[i].name : i \in {k \in 1..Len(config) : config[k].kind = "pair"}}

\* the field candidates are those of the page scanner: the 8 standard fields,
\* then custom keys of the front-matter, each of them present
IsPageKeys(items, keys) ==
  /\ Len(items) >= 8
  /\ Labels(SubSeq(items, 1, 8)) = StandardFields
  /\ Range(Labels(SubSeq(items, 9, Len(items)))) = Range(CustomKeys(keys))
  /\ \A i \in 1..Len(items) : items[i].kind = "Field"

\* the field candidates are those of the config scanner: keys of the config
\* file that was read, none when there is no file or it cannot be opened
IsConfigKeys(r, items) ==
  /\ \A i \in 1..Len(items) :
       /\ items[i].kind = "Field"
       /\ items[i].detail = "Config from allay.toml"
  /\ Range(Labels(items)) \subseteq
       (IF responses[r].configFound /\ responses[r].configRead
          THEN PairNames(responses[r].config) ELSE {})
  /\ calls[r] = IF responses[r].configFound
                  THEN <<"findFiles:allay.toml", "openTextDocument:allay.toml">>
                  ELSE <<"findFiles:allay.toml">>

=============================================================================
